---- MODULE Spec2Model ----
(***************************************************************************)
(* Model of the mini RTOS kernel of src/rtos.c: the TCB table task_list,   *)
(* rtos_create_task, rtos_start_scheduler, rtos_delay, rtos_suspend_task,  *)
(* rtos_activate_task, the dispatcher, context_switch,                     *)
(* activate_waiting_tasks, SysTick_Handler and PendSV_Handler.             *)
(***************************************************************************)
EXTENDS Integers, FiniteSets, Sequences, TLC

(***************************************************************************)
(* Bounds of the model.                                                    *)
(***************************************************************************)
\* RTOS_MAX_NUMBER_OF_TASKS is set in rtos_config.h: the number of user
\* tasks the application may create.
RTOS_MAX_NUMBER_OF_TASKS == 2
\* Tick interrupts are taken while global_tick is below MaxTick.
MaxTick == 3
\* The tasks make at most MaxCalls calls of delay, suspend and activate.
MaxCalls == 2
\* rtos_tick_t is an unsigned counter: 0 - 1 wraps to its largest value.
\* Its width is reduced to TickBits bits so that the values stay small and
\* the wrap of global_tick is within reach.
TickBits == 8

TickModulus == 2 ^ TickBits

\* Arguments tasks pass to rtos_delay: the yield and the shortest delay.
Delays == {0, 1}

\* Priorities user tasks are created with (uint8_t): small values, equal
\* values, and values above 127, which do not fit the dispatcher's int8_t.
Priorities == {1, 200}

(***************************************************************************)
(* Program constants and types.                                            *)
(***************************************************************************)
INVALID_TASK == -1

\* task_state_e
S_READY == "S_READY"
S_RUNNING == "S_RUNNING"
S_WAITING == "S_WAITING"
S_SUSPENDED == "S_SUSPENDED"

\* task_switch_type_e
kFromISR == "kFromISR"
kFromNormalExec == "kFromNormalExec"

\* rtos_autostart_e
kAutoStart == "kAutoStart"
kStartSuspended == "kStartSuspended"

\* Indexes of task_list.tasks [ RTOS_MAX_NUMBER_OF_TASKS + 1 ].
Slots == 0 .. RTOS_MAX_NUMBER_OF_TASKS

\* A saved stack pointer, kept abstract: how it was computed and the stack
\* the processor was running on when it was computed.
\*   "zero"        the zero-initialised field
\*   "frame"       &stack[RTOS_STACK_SIZE - 1 - STACK_FRAME_SIZE] of the task
\*   "sp_minus_9"  sp - 9, saved from thread context
\*   "sp_plus_9"   sp + 9, saved from the tick handler
SpValue(kind, stack) == [kind |-> kind, stack |-> stack]

\* Variant in which the zero state of a TCB is S_WAITING.
ZeroTcb_waiting ==
  [priority |-> 0, state |-> S_WAITING, sp |-> SpValue("zero", INVALID_TASK),
   local_tick |-> 0]

\* A TCB of the zero-initialised task_list (S_READY is the enum's 0).
ZeroTcb ==
  [priority |-> 0, state |-> S_READY, sp |-> SpValue("zero", INVALID_TASK),
   local_tick |-> 0]

\* task_list = { 0 }
ZeroTaskList ==
  [nTasks |-> 0, current_task |-> 0, next_task |-> 0,
   tasks |-> [i \in Slots |-> ZeroTcb], global_tick |-> 0]

\* Conversion of a uint8_t to int8_t, as in "highest = priority".
ToInt8(x) == IF x >= 128 THEN x - 256 ELSE x

VARIABLES
  task_list,   \* the global struct task_list
  first_run,   \* the static first_run of context_switch
  pendsv,      \* the PendSV pending bit of SCB->ICSR
  cpu_task,    \* the task whose stack the processor runs on; INVALID_TASK
               \* is the startup stack of main
  started,     \* rtos_start_scheduler has been called
  is_alive,    \* the build defines RTOS_ENABLE_IS_ALIVE
  oob,         \* a TCB outside task_list.tasks has been read or written
  idle,        \* handle create_task returned for the idle task
  op,          \* the last operation, its task and its arguments
  disp_sel,    \* local next_task of the dispatcher's last run
  due,         \* per task, the global tick the delay it is in ends at,
               \* kept until a tick goes past it
  calls,       \* per task, the API call the task is in the middle of
  ncalls       \* the number of API calls the tasks have made

vars ==
  <<task_list, first_run, pendsv, cpu_task, started, is_alive, oob, idle,
    op, disp_sel, due, calls, ncalls>>

\* disp_sel before the dispatcher has run.
NoDispatch == -2
\* due of a task with no delay pending.
NoDue == -1

\* calls[t] of a task that is not inside delay, suspend or activate. Inside
\* a call: pc is the statement the call is at, api and arg the function
\* called and its argument, index, next_task and highest the locals of the
\* dispatcher's loop, and loaded the value the call holds in a register
\* between the load of task_list.current_task or task_list.next_task and
\* the store that uses it.
NoCall ==
  [pc |-> "none", api |-> "none", arg |-> 0,
   index |-> 0, next_task |-> INVALID_TASK, highest |-> -1,
   loaded |-> INVALID_TASK]

Op(name, task, arg, aux) == [name |-> name, task |-> task, arg |-> arg, aux |-> aux]

\* The call of the task whose stack the processor runs on.
call == IF cpu_task \in Slots THEN calls[cpu_task] ELSE NoCall

\* The kernel state the functions of rtos.c read and write.
Kernel ==
  [tl |-> task_list, first_run |-> first_run, pendsv |-> pendsv,
   oob |-> oob, cpu |-> cpu_task, sel |-> disp_sel, retval |-> INVALID_TASK]

(***************************************************************************)
(* rtos_create_task                                                        *)
(***************************************************************************)
\* Variant with the capacity test off by one (>= for >).
rtos_create_task_one_more(k, priority, autostart) ==
  LET n == k.tl.nTasks IN
  IF RTOS_MAX_NUMBER_OF_TASKS >= n
  THEN [k EXCEPT
          !.tl.tasks[n] =
             [priority |-> priority,
              local_tick |-> 0,
              sp |-> SpValue("frame", n),
              state |-> IF kStartSuspended = autostart
                        THEN S_SUSPENDED ELSE S_READY],
          !.tl.nTasks = n + 1,
          !.retval = n]
  ELSE [k EXCEPT !.retval = INVALID_TASK]

rtos_create_task(k, priority, autostart) ==
  LET n == k.tl.nTasks IN
  IF RTOS_MAX_NUMBER_OF_TASKS > n
  THEN [k EXCEPT
          !.tl.tasks[n] =
             [priority |-> priority,
              local_tick |-> 0,
              sp |-> SpValue("frame", n),
              state |-> IF kStartSuspended = autostart
                        THEN S_SUSPENDED ELSE S_READY],
          !.tl.nTasks = n + 1,
          !.retval = n]
  ELSE [k EXCEPT !.retval = INVALID_TASK]

\* The store of tasks[current_task].sp = sp - 9 or sp + 9, task being the
\* index loaded.
StoreSp(k, task, type) ==
  LET saved == SpValue(IF kFromNormalExec = type THEN "sp_minus_9"
                                                 ELSE "sp_plus_9", k.cpu)
  IN IF task \in Slots
     THEN [k EXCEPT !.tl.tasks[task].sp = saved]
     ELSE [k EXCEPT !.oob = TRUE]

\* first_run = 0
ClearFirstRun(k) == [k EXCEPT !.first_run = 0]

\* if (!first_run) tasks[current_task].sp = sp - 9 or sp + 9; first_run = 0
SaveSp(k, type) ==
  ClearFirstRun(IF k.first_run # 0 THEN k
                ELSE StoreSp(k, k.tl.current_task, type))

\* The store of current_task = next_task, task being the value loaded.
StoreCurrentTask(k, task) == [k EXCEPT !.tl.current_task = task]

\* current_task = next_task
AdoptNext(k) == StoreCurrentTask(k, k.tl.next_task)

\* The store of tasks[current_task].state = state, task being the index
\* loaded.
StoreState(k, task, state) ==
  IF task \in Slots
  THEN [k EXCEPT !.tl.tasks[task].state = state]
  ELSE [k EXCEPT !.oob = TRUE]

\* tasks[current_task].state = state
SetCurrentState(k, state) == StoreState(k, k.tl.current_task, state)

\* SCB->ICSR |= SCB_ICSR_PENDSVSET_Msk
PendSwitch(k) == [k EXCEPT !.pendsv = TRUE]

context_switch(k, type) ==
  PendSwitch(SetCurrentState(AdoptNext(SaveSp(k, type)), S_RUNNING))

(***************************************************************************)
(* dispatcher                                                              *)
(***************************************************************************)
Eligible(tcb) == tcb.state = S_READY \/ tcb.state = S_RUNNING

\* One iteration of the dispatcher's for loop: the locals after it.
LoopBody(tl, index, next_task, highest) ==
  IF highest < tl.tasks[index].priority /\ Eligible(tl.tasks[index])
  THEN [next_task |-> index, highest |-> ToInt8(tl.tasks[index].priority)]
  ELSE [next_task |-> next_task, highest |-> highest]

\* The for loop of the dispatcher from index on; the result is next_task.
RECURSIVE DispatcherScan(_, _, _, _)
DispatcherScan(tl, index, next_task, highest) ==
  IF index >= tl.nTasks
  THEN next_task
  ELSE LET r == LoopBody(tl, index, next_task, highest) IN
       DispatcherScan(tl, index + 1, r.next_task, r.highest)

dispatcher(k, type) ==
  LET next_task == DispatcherScan(k.tl, 0, INVALID_TASK, -1)
      k1 == [k EXCEPT !.sel = next_task]
  IN IF next_task # k.tl.current_task
     THEN context_switch([k1 EXCEPT !.tl.next_task = next_task], type)
     ELSE k1

(***************************************************************************)
(* activate_waiting_tasks                                                  *)
(***************************************************************************)
\* The loop runs task_to_check from 0 to nTasks inclusive; nTasks is at
\* most RTOS_MAX_NUMBER_OF_TASKS, so the slot at nTasks is in the array.
RECURSIVE WakeScan(_, _)
WakeScan(tl, task_to_check) ==
  IF task_to_check > tl.nTasks
  THEN tl
  ELSE LET tcb == tl.tasks[task_to_check]
           ticked == (tcb.local_tick - 1) % TickModulus
           tl1 == IF tcb.state = S_WAITING
                  THEN [tl EXCEPT
                          !.tasks[task_to_check].local_tick = ticked,
                          !.tasks[task_to_check].state =
                             IF ticked = 0 THEN S_READY ELSE S_WAITING]
                  ELSE tl
       IN WakeScan(tl1, task_to_check + 1)

activate_waiting_tasks(k) == [k EXCEPT !.tl = WakeScan(k.tl, 0)]

(***************************************************************************)
(* API functions and interrupt handlers, as functions of the kernel state  *)
(***************************************************************************)
\* The store of tasks[current_task].local_tick = ticks, task being the
\* index loaded.
StoreLocalTick(k, task, ticks) ==
  IF task \in Slots
  THEN [k EXCEPT !.tl.tasks[task].local_tick = ticks]
  ELSE [k EXCEPT !.oob = TRUE]

\* tasks[task].state = S_READY
SetReady(k, task) == [k EXCEPT !.tl.tasks[task].state = S_READY]

\* With RTOS_ENABLE_IS_ALIVE the function resets the clock and the current
\* task and creates the idle task; without it, it only enables the tick.
rtos_start_scheduler(k, alive) ==
  IF alive
  THEN rtos_create_task([k EXCEPT !.tl.global_tick = 0,
                                  !.tl.current_task = INVALID_TASK],
                        0, kAutoStart)
  ELSE k

\* Variant that does not count the tick.
SysTick_Handler_no_count(k) ==
  dispatcher(activate_waiting_tasks(k), kFromISR)

SysTick_Handler(k) ==
  dispatcher(
    activate_waiting_tasks(
      [k EXCEPT !.tl.global_tick = (k.tl.global_tick + 1) % TickModulus]),
    kFromISR)

\* The stacks the word read as tasks[current_task].sp can point into. With
\* current_task outside the array it is whatever the memory in front of
\* task_list holds: a pointer into any stack, the one the processor is on
\* included, or into none.
LoadedSp(k) ==
  LET cur == k.tl.current_task IN
  IF cur \in Slots
  THEN {k.tl.tasks[cur].sp.stack}
  ELSE {INVALID_TASK, k.cpu} \cup (0 .. k.tl.nTasks - 1)

\* Clears the pending bit and installs tasks[current_task].sp: the
\* processor continues on the stack that pointer lies in.
PendSV_Handler(k, stack) ==
  [k EXCEPT !.pendsv = FALSE,
            !.cpu = stack,
            !.oob = k.oob \/ k.tl.current_task \notin Slots]

(***************************************************************************)
(* The state machine                                                       *)
(***************************************************************************)
Init ==
  /\ task_list = ZeroTaskList
  /\ first_run = 1
  /\ pendsv = FALSE
  /\ cpu_task = INVALID_TASK
  /\ started = FALSE
  /\ is_alive \in BOOLEAN
  /\ oob = FALSE
  /\ idle = INVALID_TASK
  /\ op = Op("init", INVALID_TASK, 0, 0)
  /\ disp_sel = NoDispatch
  /\ due = [i \in Slots |-> NoDue]
  /\ calls = [i \in Slots |-> NoCall]
  /\ ncalls = 0

\* The kernel part of the next state is k.
Becomes(k) ==
  /\ task_list' = k.tl
  /\ first_run' = k.first_run
  /\ pendsv' = k.pendsv
  /\ oob' = k.oob
  /\ cpu_task' = k.cpu
  /\ disp_sel' = k.sel

\* The application creates a task before it starts the scheduler.
CreateTask ==
  /\ ~started
  /\ \E priority \in Priorities, autostart \in {kAutoStart, kStartSuspended} :
       LET k == rtos_create_task(Kernel, priority, autostart) IN
       /\ Becomes(k)
       /\ op' = Op("create_task", k.retval, priority, autostart)
  /\ UNCHANGED <<ncalls, started, is_alive, idle, due, calls>>

StartScheduler ==
  /\ ~started
  /\ LET k == rtos_start_scheduler(Kernel, is_alive) IN
     /\ Becomes(k)
     /\ idle' = k.retval
     /\ op' = Op("start_scheduler", k.retval, 0, 0)
  /\ started' = TRUE
  /\ UNCHANGED <<ncalls, is_alive, due, calls>>

\* The system holds the idle task and no other task: no task ever calls
\* the kernel.
OnlyIdle == task_list.nTasks = 1 /\ idle = 0

\* Tick interrupts are followed up to MaxTick, and over the whole range of
\* the counter in the system that holds only the idle task.
TickFollowed == task_list.global_tick < MaxTick \/ OnlyIdle

\* The tick interrupt; it is enabled by rtos_start_scheduler and no
\* function masks it, so it is taken between any two steps of a call.
Tick ==
  /\ started
  /\ TickFollowed
  /\ Becomes(SysTick_Handler(Kernel))
  /\ op' = Op("tick", INVALID_TASK, 0, 0)
  /\ due' = [i \in Slots |->
               IF due[i] <= task_list.global_tick THEN NoDue ELSE due[i]]
  /\ UNCHANGED <<ncalls, started, is_alive, idle, calls>>

\* The deferred-switch interrupt, taken when it is pending. The task it
\* adopts is no longer in a delay.
PendSV ==
  /\ pendsv
  /\ \E stack \in LoadedSp(Kernel) : Becomes(PendSV_Handler(Kernel, stack))
  /\ op' = Op("pendsv", INVALID_TASK, 0, 0)
  /\ due' = [i \in Slots |->
               IF i = task_list.current_task THEN NoDue ELSE due[i]]
  /\ UNCHANGED <<ncalls, started, is_alive, idle, calls>>

\* A task body is executing: the scheduler has started, no switch is
\* pending, and the processor runs on the stack of a created task, which
\* need not be current_task. The idle task's body is an empty loop and
\* calls nothing.
TaskExecutes ==
  /\ started
  /\ ~pendsv
  /\ cpu_task \in 0 .. task_list.nTasks - 1
  /\ cpu_task # idle

(***************************************************************************)
(* The API calls of the tasks, one access to the kernel's memory at a      *)
(* time: an assignment through task_list.current_task or                   *)
(* task_list.next_task is a load followed by a store. A call goes on while *)
(* the processor runs on the caller's stack.                               *)
(***************************************************************************)
CallRuns == ~pendsv /\ call.pc # "none"

\* API calls are followed up to MaxCalls.
CallFollowed == ncalls < MaxCalls

SetCall(c) == calls' = [calls EXCEPT ![cpu_task] = c]

Enter(api, arg, pc) ==
  [NoCall EXCEPT !.pc = pc, !.api = api, !.arg = arg]

\* A step inside the call, to the statement pc.
Goes(pc) ==
  /\ SetCall([call EXCEPT !.pc = pc])
  /\ op' = Op("step", cpu_task, 0, 0)

\* The call returns to the task.
Returns ==
  /\ SetCall(NoCall)
  /\ op' = Op(call.api, cpu_task, call.arg, 0)

\* A step inside the call that loads task_list.current_task into the
\* register and changes nothing else.
LoadsCurrentTask(pc) ==
  /\ SetCall([call EXCEPT !.pc = pc, !.loaded = task_list.current_task])
  /\ op' = Op("step", cpu_task, 0, 0)
  /\ UNCHANGED <<ncalls, task_list, first_run, pendsv, cpu_task, oob, disp_sel,
                 started, is_alive, idle, due>>

\* A step inside the call that stores through the register: the kernel
\* becomes k and the register is free again.
Stores(k, pc) ==
  /\ Becomes(k)
  /\ SetCall([call EXCEPT !.pc = pc, !.loaded = INVALID_TASK])
  /\ op' = Op("step", cpu_task, 0, 0)
  /\ UNCHANGED <<ncalls, started, is_alive, idle, due>>

\* rtos_delay is called; tasks[current_task].state = S_WAITING, the load
\* of current_task
DelayStateLoad ==
  /\ TaskExecutes
  /\ call = NoCall
  /\ CallFollowed
  /\ ncalls' = ncalls + 1
  /\ \E ticks \in Delays :
       /\ SetCall([Enter("delay", ticks, "waiting_store")
                     EXCEPT !.loaded = task_list.current_task])
       /\ op' = Op("delay_called", cpu_task, ticks, 0)
       /\ due' = [due EXCEPT ![cpu_task] = task_list.global_tick + ticks]
  /\ UNCHANGED <<task_list, first_run, pendsv, cpu_task, oob, disp_sel,
                 started, is_alive, idle>>

\* rtos_delay: tasks[current_task].state = S_WAITING, the store to the TCB
DelayStateStore ==
  /\ call.pc = "waiting_store"
  /\ CallRuns
  /\ Stores(StoreState(Kernel, call.loaded, S_WAITING), "local_tick")

\* rtos_delay: tasks[current_task].local_tick = ticks, the load of
\* current_task
DelayLocalTickLoad ==
  /\ call.pc = "local_tick"
  /\ CallRuns
  /\ LoadsCurrentTask("local_tick_store")

\* rtos_delay: tasks[current_task].local_tick = ticks, the store to the
\* TCB
DelayLocalTickStore ==
  /\ call.pc = "local_tick_store"
  /\ CallRuns
  /\ Becomes(StoreLocalTick(Kernel, call.loaded, call.arg))
  /\ SetCall([call EXCEPT !.pc = "loop", !.arg = 0,
                          !.loaded = INVALID_TASK])
  /\ op' = Op("step", cpu_task, 0, 0)
  /\ UNCHANGED <<ncalls, started, is_alive, idle, due>>

\* rtos_suspend_task is called; tasks[current_task].state = S_SUSPENDED,
\* the load of current_task
SuspendStateLoad ==
  /\ TaskExecutes
  /\ call = NoCall
  /\ CallFollowed
  /\ ncalls' = ncalls + 1
  /\ SetCall([Enter("suspend", 0, "suspended_store")
                EXCEPT !.loaded = task_list.current_task])
  /\ op' = Op("suspend_called", cpu_task, 0, 0)
  /\ UNCHANGED <<task_list, first_run, pendsv, cpu_task, oob, disp_sel,
                 started, is_alive, idle, due>>

\* rtos_suspend_task: tasks[current_task].state = S_SUSPENDED, the store
\* to the TCB
SuspendStateStore ==
  /\ call.pc = "suspended_store"
  /\ CallRuns
  /\ Stores(StoreState(Kernel, call.loaded, S_SUSPENDED), "loop")

\* rtos_activate_task is called. The handle passed is that of a created
\* task that is SUSPENDED or WAITING when the caller makes the call, which
\* is the precondition of the call.
ActivateCall ==
  /\ TaskExecutes
  /\ call = NoCall
  /\ CallFollowed
  /\ ncalls' = ncalls + 1
  /\ \E task \in 0 .. task_list.nTasks - 1 :
       /\ task_list.tasks[task].state \in {S_SUSPENDED, S_WAITING}
       /\ SetCall(Enter("activate", task, "ready_store"))
       /\ op' = Op("activate_called", cpu_task, task, 0)
  /\ UNCHANGED <<task_list, first_run, pendsv, cpu_task, oob, disp_sel,
                 started, is_alive, idle, due>>

\* rtos_activate_task: tasks[task].state = S_READY, whatever the state of
\* the task is by now
ActivateState ==
  /\ call.pc = "ready_store"
  /\ CallRuns
  /\ Becomes(SetReady(Kernel, call.arg))
  /\ Goes("loop")
  /\ due' = [due EXCEPT ![call.arg] = NoDue]
  /\ UNCHANGED <<ncalls, started, is_alive, idle>>

\* The call after an iteration of the dispatcher's loop that leaves the
\* locals next_task and highest as r: index++ and the loop test; after the
\* last iteration the local next_task is the selection.
LoopAdvances(r) ==
  /\ IF call.index + 1 < task_list.nTasks
     THEN /\ SetCall([call EXCEPT !.pc = "loop",
                                  !.index = call.index + 1,
                                  !.next_task = r.next_task,
                                  !.highest = r.highest])
          /\ disp_sel' = disp_sel
     ELSE /\ SetCall([call EXCEPT !.pc = "test", !.index = 0,
                                  !.next_task = r.next_task,
                                  !.highest = -1])
          /\ disp_sel' = r.next_task
  /\ op' = Op("step", cpu_task, 0, 0)
  /\ UNCHANGED <<ncalls, task_list, first_run, pendsv, cpu_task, started,
                 is_alive, oob, idle, due>>

\* The locals after the body of the if: the task at index is selected.
Selects(index) ==
  [next_task |-> index, highest |-> ToInt8(task_list.tasks[index].priority)]

\* The locals of an iteration that selects nothing.
KeepsSelection == [next_task |-> call.next_task, highest |-> call.highest]

\* dispatcher: one iteration of the for loop as far as the first read of
\* tasks[index].state: highest < priority && state == S_READY. When the
\* priority is greater and the state read is not S_READY the state is read
\* again. nTasks and the priorities, which the iteration also reads, are
\* written by rtos_create_task only, which the application calls before
\* it starts the scheduler.
DispatcherLoopReady ==
  /\ call.pc = "loop"
  /\ CallRuns
  /\ IF call.highest < task_list.tasks[call.index].priority
     THEN IF task_list.tasks[call.index].state = S_READY
          THEN LoopAdvances(Selects(call.index))
          ELSE /\ Goes("loop_running")
               /\ UNCHANGED <<ncalls, task_list, first_run, pendsv, cpu_task,
                              started, is_alive, oob, idle, due, disp_sel>>
     ELSE LoopAdvances(KeepsSelection)

\* dispatcher: the second read of tasks[index].state in the iteration:
\* || state == S_RUNNING
DispatcherLoopRunning ==
  /\ call.pc = "loop_running"
  /\ CallRuns
  /\ IF task_list.tasks[call.index].state = S_RUNNING
     THEN LoopAdvances(Selects(call.index))
     ELSE LoopAdvances(KeepsSelection)

\* dispatcher: if (next_task != task_list.current_task)
DispatcherTest ==
  /\ call.pc = "test"
  /\ CallRuns
  /\ IF call.next_task # task_list.current_task
     THEN Goes("next_task")
     ELSE Returns
  /\ UNCHANGED <<ncalls, task_list, first_run, pendsv, cpu_task, started,
                 is_alive, oob, idle, due, disp_sel>>

\* dispatcher: task_list.next_task = next_task
DispatcherNextTask ==
  /\ call.pc = "next_task"
  /\ CallRuns
  /\ Becomes([Kernel EXCEPT !.tl.next_task = call.next_task])
  /\ Goes("save")
  /\ UNCHANGED <<ncalls, started, is_alive, idle, due>>

\* context_switch: if (!first_run)
ContextFirstRunTest ==
  /\ call.pc = "save"
  /\ CallRuns
  /\ Goes(IF first_run = 0 THEN "save_load" ELSE "first_run")
  /\ UNCHANGED <<ncalls, task_list, first_run, pendsv, cpu_task, oob,
                 disp_sel, started, is_alive, idle, due>>

\* context_switch: tasks[current_task].sp = sp - 9, the load of
\* current_task
ContextSaveLoad ==
  /\ call.pc = "save_load"
  /\ CallRuns
  /\ LoadsCurrentTask("save_store")

\* context_switch: tasks[current_task].sp = sp - 9, the store to the TCB
ContextSaveStore ==
  /\ call.pc = "save_store"
  /\ CallRuns
  /\ Stores(StoreSp(Kernel, call.loaded, kFromNormalExec), "first_run")

\* context_switch: first_run = 0
ContextFirstRun ==
  /\ call.pc = "first_run"
  /\ CallRuns
  /\ Becomes(ClearFirstRun(Kernel))
  /\ Goes("adopt")
  /\ UNCHANGED <<ncalls, started, is_alive, idle, due>>

\* context_switch: current_task = next_task, the load of next_task
ContextAdoptLoad ==
  /\ call.pc = "adopt"
  /\ CallRuns
  /\ SetCall([call EXCEPT !.pc = "adopt_store",
                          !.loaded = task_list.next_task])
  /\ op' = Op("step", cpu_task, 0, 0)
  /\ UNCHANGED <<ncalls, task_list, first_run, pendsv, cpu_task, oob, disp_sel,
                 started, is_alive, idle, due>>

\* context_switch: current_task = next_task, the store to current_task
ContextAdoptStore ==
  /\ call.pc = "adopt_store"
  /\ CallRuns
  /\ Stores(StoreCurrentTask(Kernel, call.loaded), "running")

\* context_switch: tasks[current_task].state = S_RUNNING, the load of
\* current_task
ContextRunningLoad ==
  /\ call.pc = "running"
  /\ CallRuns
  /\ LoadsCurrentTask("running_store")

\* context_switch: tasks[current_task].state = S_RUNNING, the store to the
\* TCB
ContextRunningStore ==
  /\ call.pc = "running_store"
  /\ CallRuns
  /\ Stores(StoreState(Kernel, call.loaded, S_RUNNING), "pend")

\* context_switch: SCB->ICSR |= SCB_ICSR_PENDSVSET_Msk, the load of the
\* register
ContextPendLoad ==
  /\ call.pc = "pend"
  /\ CallRuns
  /\ Goes("pend_store")
  /\ UNCHANGED <<ncalls, task_list, first_run, pendsv, cpu_task, oob,
                 disp_sel, started, is_alive, idle, due>>

\* context_switch: SCB->ICSR |= SCB_ICSR_PENDSVSET_Msk, the store that
\* requests the deferred switch; the call is over.
ContextPendStore ==
  /\ call.pc = "pend_store"
  /\ CallRuns
  /\ Becomes(PendSwitch(Kernel))
  /\ Returns
  /\ UNCHANGED <<ncalls, started, is_alive, idle, due>>

Next ==
  \/ CreateTask
  \/ StartScheduler
  \/ Tick
  \/ PendSV
  \/ DelayStateLoad
  \/ DelayStateStore
  \/ DelayLocalTickLoad
  \/ DelayLocalTickStore
  \/ SuspendStateLoad
  \/ SuspendStateStore
  \/ ActivateCall
  \/ ActivateState
  \/ DispatcherLoopReady
  \/ DispatcherLoopRunning
  \/ DispatcherTest
  \/ DispatcherNextTask
  \/ ContextFirstRunTest
  \/ ContextSaveLoad
  \/ ContextSaveStore
  \/ ContextFirstRun
  \/ ContextAdoptLoad
  \/ ContextAdoptStore
  \/ ContextRunningLoad
  \/ ContextRunningStore
  \/ ContextPendLoad
  \/ ContextPendStore

Spec == Init /\ [][Next]_vars

(***************************************************************************)
(* Shorthands for the properties                                           *)
(***************************************************************************)
Created == 0 .. task_list.nTasks - 1
Tcb(t) == task_list.tasks[t]
\* No task is inside an API call.
NoCallInProgress == \A t \in Slots : calls[t] = NoCall

\* The last step completed a run of the dispatcher's loop, in the tick
\* handler or in an API call: disp_sel is its selection.
\* The task on the processor takes a step of its API call from one of the
\* statements pcs.
CallStepAt(pcs) == call.pc \in pcs /\ calls' # calls

SelectionMade ==
  \/ op.name = "tick"
  \/ op.name = "step" /\ call.pc = "test"

TypeOK ==
  /\ task_list.nTasks \in 0 .. RTOS_MAX_NUMBER_OF_TASKS
  /\ task_list.current_task \in Created \cup {INVALID_TASK, 0}
  /\ first_run \in {0, 1}

(***************************************************************************)
(* C1: at most one task has state S_RUNNING, in every state reached by     *)
(* create_task, start_scheduler, ticks and delay / suspend / activate      *)
(* calls of the running task. Stated where nothing else has gone wrong:    *)
(* the idle task is registered, every priority fits the dispatcher's       *)
(* int8_t and no TCB outside the table has been accessed.                  *)
(***************************************************************************)
RunningTasks == {t \in Created : Tcb(t).state = S_RUNNING}

\* Every priority in use is at most 127.
PrioritiesFitInt8 == \A t \in Created : Tcb(t).priority < 128

C1_AtMostOneRunning ==
  (idle \in Created /\ PrioritiesFitInt8 /\ ~oob)
    => Cardinality(RunningTasks) <= 1

(***************************************************************************)
(* C2: the task the dispatcher selects has a priority greater than or      *)
(* equal to that of every other task that is READY or RUNNING, for         *)
(* priorities in the whole range of uint8_t.                               *)
(***************************************************************************)
C2_SelectedHasGreatestPriority ==
  (SelectionMade /\ disp_sel \in Created) =>
    \A u \in Created :
      Eligible(Tcb(u)) => Tcb(disp_sel).priority >= Tcb(u).priority

(***************************************************************************)
(* C3: delay(0) is a yield: a task WAITING with local tick 0 is promoted   *)
(* to READY (and may be made RUNNING) by the very next tick. Stated for    *)
(* the ticks taken while no task is inside an API call.                    *)
(***************************************************************************)
TickStep == task_list'.global_tick # task_list.global_tick

C3_DelayZeroYields ==
  [][\A t \in Created :
       (TickStep /\ NoCallInProgress
          /\ Tcb(t).state = S_WAITING /\ Tcb(t).local_tick = 0)
         => task_list'.tasks[t].state \in {S_READY, S_RUNNING}]_vars

(***************************************************************************)
(* C4: start_scheduler registers the idle task (priority 0, AUTO_START)    *)
(* and the registration succeeds whatever the number of user tasks created *)
(* before: the idle task gets a TCB slot and the task count grows by one.  *)
(* Stated for the build that compiles the registration in.                 *)
(***************************************************************************)
C4_IdleTaskRegistered ==
  [][(is_alive /\ ~started /\ started')
       => /\ idle' = task_list.nTasks
          /\ task_list'.nTasks = task_list.nTasks + 1
          /\ task_list'.tasks[task_list.nTasks].priority = 0
          /\ task_list'.tasks[task_list.nTasks].state = S_READY]_vars

(***************************************************************************)
(* C5: the first RTOS_MAX_NUMBER_OF_TASKS create_task calls return the     *)
(* handles 0, 1, ... in order and initialise the new TCB (READY under      *)
(* AUTO_START, SUSPENDED otherwise, local tick 0); every further call      *)
(* returns INVALID_TASK and leaves task_list unchanged.                    *)
(***************************************************************************)
C5_CreateTaskHandles ==
  [][(op'.name = "create_task")
       => LET n == task_list.nTasks IN
          IF n < RTOS_MAX_NUMBER_OF_TASKS
          THEN /\ op'.task = n
               /\ task_list'.nTasks = n + 1
               /\ task_list'.tasks[n].priority = op'.arg
               /\ task_list'.tasks[n].local_tick = 0
               /\ task_list'.tasks[n].state =
                    (IF op'.aux = kAutoStart THEN S_READY ELSE S_SUSPENDED)
               /\ \A i \in Slots \ {n} :
                    task_list'.tasks[i] = task_list.tasks[i]
          ELSE /\ op'.task = INVALID_TASK
               /\ task_list' = task_list]_vars

\* A create_task call beyond the capacity has returned INVALID_TASK, after
\* the calls before it returned the handles 0, 1, ...
C5_Witness ==
  /\ ~started
  /\ op.name = "create_task"
  /\ op.task = INVALID_TASK
  /\ task_list.nTasks = RTOS_MAX_NUMBER_OF_TASKS
  /\ \A t \in Created : Tcb(t).sp = SpValue("frame", t)

(***************************************************************************)
(* C6: a task that called delay(n) at global tick T is not the current     *)
(* task again before the global tick has reached T + n, unless an activate *)
(* call targeted it meanwhile (due[t] is T + n, reset by activate and     *)
(* when the task is resumed).                                              *)
(***************************************************************************)
C6_NoEarlyResume ==
  (is_alive /\ ~oob) =>
    \A t \in Created :
      (due[t] # NoDue /\ calls[t] = NoCall
         /\ (task_list.current_task = t \/ (cpu_task = t /\ ~pendsv)))
        => task_list.global_tick >= due[t]

(***************************************************************************)
(* C7: when several READY or RUNNING tasks share the greatest priority,    *)
(* the dispatcher selects the one with the lowest handle.                  *)
(***************************************************************************)
TopTasks ==
  {u \in Created :
     /\ Eligible(Tcb(u))
     /\ \A v \in Created :
          Eligible(Tcb(v)) => Tcb(u).priority >= Tcb(v).priority}

C7_TieGoesToLowestHandle ==
  (SelectionMade /\ disp_sel \in Created /\ Cardinality(TopTasks) >= 2)
    => /\ disp_sel \in TopTasks
       /\ \A u \in TopTasks : disp_sel <= u

(***************************************************************************)
(* C8: a SUSPENDED task stays SUSPENDED across ticks and the other tasks'  *)
(* delay / suspend calls, and no dispatcher run selects it or makes it the *)
(* current task, and the deferred-switch handler does not resume it; only  *)
(* an activate call that targets it ends the suspension. Stated for the    *)
(* steps that stay inside the TCB array.                                   *)
(***************************************************************************)
ActivateStep(t) ==
  call.pc = "ready_store" /\ call.arg = t /\ calls' # calls

C8_SuspendedUntilActivated ==
  [][\A t \in Created :
       (Tcb(t).state = S_SUSPENDED /\ ~ActivateStep(t) /\ ~oob')
         => /\ task_list'.tasks[t].state = S_SUSPENDED
            /\ (SelectionMade' => disp_sel' # t)
            /\ (task_list'.current_task = t => task_list.current_task = t)
            /\ (op'.name = "pendsv" => cpu_task' # t)]_vars

(***************************************************************************)
(* C9: when a task calls activate on a SUSPENDED task S, control passes to *)
(* S at that call if S has the greatest priority among the READY / RUNNING *)
(* tasks (the caller included), and only if no such task has a greater     *)
(* priority; otherwise S stays READY. Stated for the state in which the    *)
(* call returns, S being its argument.                                     *)
(***************************************************************************)
C9_ActivateHandsOver ==
  \A S \in Created :
    (op.name = "activate" /\ op.arg = S)
      => LET others == {u \in Created \ {S} : Eligible(Tcb(u))}
             passes == task_list.current_task = S
         IN /\ (\A u \in others : Tcb(S).priority > Tcb(u).priority)
                 => passes
            /\ passes
                 => /\ \A u \in others : Tcb(S).priority >= Tcb(u).priority
                    /\ Tcb(S).state = S_RUNNING
            /\ ~passes => Tcb(S).state = S_READY

(***************************************************************************)
(* C10: when a tick brings the local tick of a WAITING task to zero and    *)
(* the task's priority is strictly greater than that of every other task   *)
(* that is READY or RUNNING, the task is current_task and RUNNING and the  *)
(* deferred switch is pending at the end of that tick handler; every       *)
(* waiter that expires in the tick is READY when its dispatcher runs.      *)
(* Stated for ticks taken in the build that registers the idle task, while *)
(* no TCB outside the table has been accessed.                             *)
(***************************************************************************)
Expires(u) == Tcb(u).state = S_WAITING /\ Tcb(u).local_tick = 1

C10_WakePreempts ==
  [][(TickStep /\ is_alive /\ ~oob)
       => \A t \in Created :
            Expires(t)
              => /\ task_list'.tasks[t].state \in {S_READY, S_RUNNING}
                 /\ (\A u \in Created \ {t} :
                       (Eligible(Tcb(u)) \/ Expires(u))
                         => Tcb(t).priority > Tcb(u).priority)
                      => /\ task_list'.current_task = t
                         /\ task_list'.tasks[t].state = S_RUNNING
                         /\ pendsv']_vars

(***************************************************************************)
(* C11: from start_scheduler on the idle task exists and is READY or       *)
(* RUNNING, never WAITING or SUSPENDED; and whenever every user task is    *)
(* WAITING or SUSPENDED after a dispatcher run, the current task is the    *)
(* idle task. Stated for the build that compiles the registration in.      *)
(***************************************************************************)
UserTasks == Created \ {idle}

AllUsersBlocked ==
  \A t \in UserTasks : Tcb(t).state \in {S_WAITING, S_SUSPENDED}

\* The last step ended an operation that runs the dispatcher.
DispatcherRunEnded == op.name \in {"tick", "delay", "suspend", "activate"}

C11_IdleAlwaysEligible ==
  (started /\ is_alive)
    => /\ idle \in Created
       /\ Tcb(idle).state \in {S_READY, S_RUNNING}
       /\ ((DispatcherRunEnded /\ AllUsersBlocked)
             => task_list.current_task = idle)

(***************************************************************************)
(* C12: between kernel operations (create_task, start_scheduler, the tick  *)
(* handler, delay, suspend, activate on SUSPENDED or WAITING targets)      *)
(* current_task is INVALID_TASK or the index of a created task whose state *)
(* is S_RUNNING. Stated for the states that follow a kernel operation.     *)
(***************************************************************************)
CurrentTaskIsRunning ==
  \/ task_list.current_task = INVALID_TASK
  \/ /\ task_list.current_task \in Created
     /\ Tcb(task_list.current_task).state = S_RUNNING

KernelOperationEnded ==
  op.name \in {"create_task", "start_scheduler", "tick",
               "delay", "suspend", "activate"}

C12_CurrentTaskInvalidOrRunning ==
  KernelOperationEnded => CurrentTaskIsRunning

(***************************************************************************)
(* C13: the dispatcher is never reentered: no tick-handler invocation of   *)
(* the dispatcher starts while a thread-context invocation made by delay,  *)
(* suspend or activate (its phase-1 context switch included) is in         *)
(* progress.                                                               *)
(***************************************************************************)
ThreadDispatcherInProgress ==
  \E t \in Slots :
    \/ calls[t].pc = "loop" /\ calls[t].index > 0
    \/ calls[t].pc \in {"loop_running", "test", "next_task", "save",
                         "save_load", "save_store", "first_run", "adopt",
                         "adopt_store", "running", "running_store", "pend",
                         "pend_store"}

C13_DispatcherNotReentered ==
  [][TickStep => ~ThreadDispatcherInProgress]_vars

(***************************************************************************)
(* C14: in every state between kernel operations, every task whose state   *)
(* is S_WAITING has local_tick greater than 0, whatever argument was       *)
(* passed to delay.                                                        *)
(***************************************************************************)
C14_WaitingHasTicksLeft ==
  NoCallInProgress =>
    \A t \in Created : Tcb(t).state = S_WAITING => Tcb(t).local_tick > 0

(***************************************************************************)
(* C15: the global tick returned by get_clock never decreases, increases   *)
(* by exactly 1 on every tick interrupt, and is left unchanged by          *)
(* create_task, delay, suspend, activate and the deferred-switch handler.  *)
(***************************************************************************)
rtos_get_clock == task_list.global_tick

TickInterrupt == op'.name = "tick"

C15_ClockNeverDecreases ==
  [][/\ rtos_get_clock' >= rtos_get_clock
     /\ TickInterrupt => rtos_get_clock' = rtos_get_clock + 1
     /\ ~TickInterrupt => rtos_get_clock' = rtos_get_clock]_vars

(***************************************************************************)
(* C15, amended: the global tick increases by exactly 1 modulo the range   *)
(* of its type on every tick interrupt, so it decreases only when it wraps *)
(* from its largest value to 0, and it is left unchanged by create_task,   *)
(* start_scheduler, delay, suspend, activate and the deferred-switch       *)
(* handler.                                                                *)
(***************************************************************************)
C15_ClockCountsModulo ==
  [][/\ TickInterrupt
          => rtos_get_clock' = (rtos_get_clock + 1) % TickModulus
     /\ ~TickInterrupt => rtos_get_clock' = rtos_get_clock
     /\ rtos_get_clock' < rtos_get_clock
          => rtos_get_clock = TickModulus - 1 /\ rtos_get_clock' = 0]_vars

\* A tick interrupt has just wrapped the counter to 0.
C15_Witness ==
  /\ op.name = "tick"
  /\ rtos_get_clock = 0

(***************************************************************************)
(* C16: every dispatcher run after start_scheduler finds a task that is    *)
(* READY or RUNNING: the dispatcher never selects INVALID_TASK as          *)
(* next_task, a context switch never sets current_task to INVALID_TASK,    *)
(* and no TCB at an index outside [0, n) is read or written. Stated for    *)
(* the build that creates the idle task.                                   *)
(***************************************************************************)
DispatcherHasRun == started /\ disp_sel # NoDispatch

C16_DispatcherFindsATask ==
  (is_alive /\ DispatcherHasRun)
    => /\ disp_sel \in Created
       /\ task_list.current_task \in Created
       /\ ~oob

(***************************************************************************)
(* C17: whenever phase 1 of a context switch records a stack pointer into  *)
(* the TCB of current_task, the processor is executing on that task's      *)
(* stack and no earlier requested switch is still pending; so the saved    *)
(* stack pointer of a task adopted as current_task but not yet switched in *)
(* is not overwritten, also when a tick arrives between the request and    *)
(* the deferred-switch handler. Stated for the runs that stay inside the   *)
(* TCB array.                                                              *)
(***************************************************************************)
SpWritten(t) == Tcb(t)'.sp # Tcb(t).sp

C17_SavedSpIsOfRunningStack ==
  [][~oob' => \A t \in Created :
                SpWritten(t) => ~pendsv /\ cpu_task = t]_vars

(***************************************************************************)
(* C18: the first context switch after start writes no task's saved stack  *)
(* pointer; every later context switch overwrites the saved stack pointer  *)
(* of exactly the outgoing task (current_task before the switch) and of no *)
(* other task; no other step writes the saved stack pointer of a created   *)
(* task, so a task that has never been switched out keeps the one          *)
(* create_task gave it. Stated for the steps that stay inside the TCB       *)
(* array.                                                                  *)
(***************************************************************************)
\* The step runs phase 1 of a context switch as far as the save of the
\* stack pointer: a tick whose dispatcher switches, or the store of the
\* save statement of a switch made by an API call.
SwitchStep ==
  \/ op'.name = "tick" /\ disp_sel' # task_list.current_task
  \/ CallStepAt({"save_store"})

SpKept(t) == task_list'.tasks[t].sp = task_list.tasks[t].sp

SavedSp ==
  SpValue(IF op'.name = "tick" THEN "sp_plus_9" ELSE "sp_minus_9", cpu_task)

C18_SwitchSavesOutgoingSpOnly ==
  [][~oob' =>
       /\ (SwitchStep /\ first_run = 1) => \A t \in Slots : SpKept(t)
       /\ (SwitchStep /\ first_run = 0)
            => \A t \in Slots :
                 IF t = task_list.current_task
                 THEN task_list'.tasks[t].sp = SavedSp
                 ELSE SpKept(t)
       /\ (~SwitchStep /\ op'.name \notin {"create_task", "start_scheduler"})
            => \A t \in Slots : SpKept(t)
       /\ op'.name \in {"create_task", "start_scheduler"}
            => \A t \in Created : SpKept(t)]_vars

(***************************************************************************)
(* C19: when the task the dispatcher selects equals current_task, the      *)
(* dispatcher run changes nothing: no TCB field, not current_task, not     *)
(* next_task, and it does not request the deferred-switch interrupt; when  *)
(* the selected task differs, next_task and current_task are set to it,    *)
(* its state becomes S_RUNNING and the deferred-switch interrupt is        *)
(* requested. The run is compared with the kernel state at its entry:      *)
(* the state the tick handler has reached when it calls the dispatcher,    *)
(* and for a run made by an API call the steps of its loop and test and    *)
(* the step that ends its context switch.                                  *)
(***************************************************************************)
DispatcherEntry ==
  activate_waiting_tasks(
    [Kernel EXCEPT
       !.tl.global_tick = (task_list.global_tick + 1) % TickModulus])

\* The outcome of a dispatcher run that selected sel.
Switched(sel) ==
  /\ task_list'.next_task = sel
  /\ task_list'.current_task = sel
  /\ sel \in Slots => task_list'.tasks[sel].state = S_RUNNING
  /\ pendsv'

C19_DispatcherSwitchesOnlyOnChange ==
  [][/\ op'.name = "tick"
          => LET entry == DispatcherEntry
             IN IF disp_sel' = entry.tl.current_task
                THEN task_list' = entry.tl /\ pendsv' = entry.pendsv
                ELSE Switched(disp_sel')
     /\ CallStepAt({"loop", "loop_running", "test"})
          => task_list' = task_list /\ pendsv' = pendsv
     /\ CallStepAt({"pend_store"}) => Switched(call.next_task)]_vars

(***************************************************************************)
(* C20: the wake-up scan of the tick engine, which also visits the unused  *)
(* TCB slot at index n (the task count), never changes a field of that     *)
(* slot, for every n from 0 to the last index of the array and after any   *)
(* sequence of kernel operations: the scan over [0, n] leaves the TCB      *)
(* store as a scan over [0, n) would.                                      *)
(***************************************************************************)
\* The wake-up scan with the loop test "task_to_check < nTasks".
RECURSIVE WakeScanBelowCount(_, _)
WakeScanBelowCount(tl, task_to_check) ==
  IF task_to_check >= tl.nTasks
  THEN tl
  ELSE LET tcb == tl.tasks[task_to_check]
           ticked == (tcb.local_tick - 1) % TickModulus
           tl1 == IF tcb.state = S_WAITING
                  THEN [tl EXCEPT
                          !.tasks[task_to_check].local_tick = ticked,
                          !.tasks[task_to_check].state =
                             IF ticked = 0 THEN S_READY ELSE S_WAITING]
                  ELSE tl
       IN WakeScanBelowCount(tl1, task_to_check + 1)

C20_ScanOfUnusedSlotIsInert ==
  /\ task_list.nTasks \in Slots
  /\ WakeScan(task_list, 0).tasks[task_list.nTasks]
       = task_list.tasks[task_list.nTasks]
  /\ WakeScan(task_list, 0) = WakeScanBelowCount(task_list, 0)

\* A tick has scanned the full array: the task count is the last index, a
\* task whose delay ends at this tick has been counted down and woken, and
\* the slot at the task count is as it was zero-initialised.
C20_Witness ==
  /\ op.name = "tick"
  /\ task_list.nTasks = RTOS_MAX_NUMBER_OF_TASKS
  /\ \E t \in Created :
       /\ due[t] = task_list.global_tick
       /\ Tcb(t).local_tick = 0
       /\ Tcb(t).state \in {S_READY, S_RUNNING}
  /\ task_list.tasks[task_list.nTasks] = ZeroTcb

====
